---- MODULE Spec2Model ----
(***************************************************************************)
(* A model of persona_builder.py: the content fetcher (RedditScraper),     *)
(* the response parser (PersonaOutputParser), the report writer            *)
(* (PersonaWriter) and the per-profile loop of main.                        *)
(*                                                                         *)
(* Strings are sequences of one-character strings, so that the regular     *)
(* expressions of the source are computed character by character.          *)
(***************************************************************************)
EXTENDS Integers, Sequences, FiniteSets, TLC

(***************************************************************************)
(* Bounds of the model.                                                    *)
(***************************************************************************)
MaxLen == 5
MaxProse == 2
MaxChildren == 2
MaxFormatPosts == 2

(***************************************************************************)
(* Generic helpers on sequences.                                           *)
(***************************************************************************)
SeqsUpTo(S, n) == UNION {[1..k -> S] : k \in 0..n}

Range(s) == {s[i] : i \in 1..Len(s)}

\* s[i..j] in 1-based inclusive positions, empty when j < i
Sub(s, i, j) == [k \in 1..(j - i + 1) |-> s[i + k - 1]]

\* d occurs in s starting at position i
OccursAt(s, d, i) == /\ i >= 1
                     /\ i + Len(d) - 1 <= Len(s)
                     /\ \A k \in 1..Len(d) : s[i + k - 1] = d[k]

Contains(s, d) == \E i \in 1..Len(s) : OccursAt(s, d, i)

(***************************************************************************)
(* RedditScraper._clean_content                                            *)
(***************************************************************************)
NL == "\n"
Whitespace == {" ", NL}
CleanAlphabet == {"*", "~", "a", " ", NL}

\* The positions j >= from at which a closing delimiter d of the pattern
\* d(.*?)d can stand: d occurs at j and the text between has no newline
\* ('.' does not match a newline without re.DOTALL).
ClosingAt(s, d, from) ==
    {j \in from..Len(s) : /\ OccursAt(s, d, j)
                          /\ \A k \in from..(j - 1) : s[k] # NL}

Min(S) == CHOOSE x \in S : \A y \in S : x <= y
Max(S) == CHOOSE x \in S : \A y \in S : x >= y

\* re.sub(d + r'(.*?)' + d, r'\1', s), scanning from position i: the leftmost
\* match, the lazy group, the replacement by the group, then the scan resumes
\* after the match.
RECURSIVE SubDelimFrom(_, _, _)
SubDelimFrom(s, d, i) ==
    IF i > Len(s) THEN <<>>
    ELSE IF OccursAt(s, d, i) /\ ClosingAt(s, d, i + Len(d)) # {}
         THEN LET j == Min(ClosingAt(s, d, i + Len(d)))
              IN  Sub(s, i + Len(d), j - 1) \o SubDelimFrom(s, d, j + Len(d))
         ELSE <<s[i]>> \o SubDelimFrom(s, d, i + 1)

\* re.sub with count=1: only the leftmost match is replaced
RECURSIVE SubDelimFirstFrom(_, _, _)
SubDelimFirstFrom(s, d, i) ==
    IF i > Len(s) THEN <<>>
    ELSE IF OccursAt(s, d, i) /\ ClosingAt(s, d, i + Len(d)) # {}
         THEN LET j == Min(ClosingAt(s, d, i + Len(d)))
              IN  Sub(s, i + Len(d), j - 1) \o Sub(s, j + Len(d), Len(s))
         ELSE <<s[i]>> \o SubDelimFirstFrom(s, d, i + 1)

SubDelimFirstOnly(s, d) == SubDelimFirstFrom(s, d, 1)

SubDelim(s, d) == SubDelimFrom(s, d, 1)

\* re.sub(r'(.*?)', r'\1', s): the pattern matches the empty string at every
\* position and is replaced by its (empty) group.
SubEmptyGroup(s) == s

\* The end of the longest run of whitespace that starts at position i
RECURSIVE WsRunEnd(_, _)
WsRunEnd(s, i) ==
    IF i <= Len(s) /\ s[i] \in Whitespace THEN WsRunEnd(s, i + 1) ELSE i - 1

\* re.sub(r'\n\s*\n', '\n\n', s): from a newline, the greedy \s* backtracks to
\* the last newline of the whitespace run.
RECURSIVE CollapseFrom(_, _)
CollapseFrom(s, i) ==
    IF i > Len(s) THEN <<>>
    ELSE LET e == WsRunEnd(s, i + 1)
             closers == {j \in (i + 1)..e : s[j] = NL}
         IN  IF s[i] = NL /\ closers # {}
             THEN <<NL, NL>> \o CollapseFrom(s, Max(closers) + 1)
             ELSE <<s[i]>> \o CollapseFrom(s, i + 1)

CollapseBlankLines(s) == CollapseFrom(s, 1)

\* str.strip()
Strip(s) ==
    LET keep == {i \in 1..Len(s) : s[i] \notin Whitespace}
    IN  IF keep = {} THEN <<>> ELSE Sub(s, Min(keep), Max(keep))

_clean_content(content) ==
    IF content = <<>> THEN <<>>
    ELSE LET c1 == SubDelim(content, <<"*", "*">>)
             c2 == SubDelim(c1, <<"*">>)
             c3 == SubDelim(c2, <<"~", "~">>)
             c4 == SubEmptyGroup(c3)
             c5 == CollapseBlankLines(c4)
         IN  Strip(c5)

(***************************************************************************)
(* RedditScraper: URL validation                                           *)
(*                                                                         *)
(* A URL is a sequence of tokens: a scheme "https:", the "//" that opens   *)
(* the network location, a host, path tokens (they start with '/' or are a *)
(* name) and "?" that opens the query.                                     *)
(***************************************************************************)
SlashTokens == {"/user/", "/u/", "/"}
PathTokens == SlashTokens \cup {"name"}

\* the first position at or after i whose token is in S, Len(url) + 1 if none
RECURSIVE FirstIn(_, _, _)
FirstIn(url, S, i) ==
    IF i > Len(url) \/ url[i] \in S THEN i ELSE FirstIn(url, S, i + 1)

\* urllib.parse.urlparse: the netloc and the path of a URL
urlparse(url) ==
    LET afterScheme == IF Len(url) >= 1 /\ url[1] = "https:" THEN 2 ELSE 1
        hasNetloc == afterScheme <= Len(url) /\ url[afterScheme] = "//"
        netlocEnd == IF hasNetloc
                     THEN FirstIn(url, SlashTokens \cup {"?"}, afterScheme + 1)
                     ELSE afterScheme
        pathEnd == FirstIn(url, {"?"}, netlocEnd)
    IN  [netloc |-> IF hasNetloc THEN Sub(url, afterScheme + 1, netlocEnd - 1) ELSE <<>>,
         path   |-> Sub(url, netlocEnd, pathEnd - 1)]

AcceptedNetlocs == {<<"www.reddit.com">>, <<"reddit.com">>, <<"old.reddit.com">>}

\* a validation that looks for '/user/' anywhere in the URL
_is_valid_reddit_url_anywhere(url) ==
    /\ urlparse(url).netloc \in AcceptedNetlocs
    /\ "/user/" \in Range(url)

_is_valid_reddit_url(url) ==
    LET parsed_url == urlparse(url)
    IN  /\ parsed_url.netloc \in AcceptedNetlocs
        /\ "/user/" \in Range(parsed_url.path)

(***************************************************************************)
(* RedditScraper._scrape_content: the upstream responses and the loop      *)
(***************************************************************************)
Repeat(c, n) == [k \in 1..n |-> c]

\* a raw item of a listing: whether it has a 'data' dict, the keys of that
\* dict and their values
RawItem(d, ks, st, bd) == [hasData |-> d, keys |-> ks, selftext |-> st, body |-> bd]

ItemMalformed == RawItem(FALSE, {}, <<>>, <<>>)
PostEmpty     == RawItem(TRUE, {"title", "selftext"}, <<>>, <<>>)
Post10        == RawItem(TRUE, {"title", "selftext"}, Repeat("a", 10), <<>>)
Post11        == RawItem(TRUE, {"title", "selftext"}, Repeat("a", 11), <<>>)
Comment9      == RawItem(TRUE, {"link_title", "body"}, <<>>,
                         <<"*">> \o Repeat("a", 9) \o <<"*">>)
Comment11     == RawItem(TRUE, {"link_title", "body"}, <<>>,
                         <<" ", "*", "*">> \o Repeat("a", 11) \o <<"*", "*", NL>>)

RawItems == {ItemMalformed, PostEmpty, Post10, Post11, Comment9, Comment11}

\* an element of a list-shaped response: a listing dict with children, or
\* something else
Listing(c) == [isListing |-> TRUE, children |-> c]
NotAListing == [isListing |-> FALSE, children |-> <<>>]
ListElements == {NotAListing} \cup {Listing(c) : c \in SeqsUpTo({Post11, Comment9}, 1)}

Response(k, c, l) == [kind |-> k, children |-> c, listings |-> l]

FailureKinds == {"conn_error", "http_error", "bad_json", "dict_nochildren"}

Responses ==
    {Response(k, <<>>, <<>>) : k \in FailureKinds \cup {"dict_nodata", "scalar"}}
    \cup {Response("dict", c, <<>>) : c \in SeqsUpTo(RawItems, MaxChildren)}
    \cup {Response("list", <<>>, <<e1, e2>>) : e1, e2 \in ListElements}

RECURSIVE Flatten(_)
Flatten(l) == IF l = <<>> THEN <<>> ELSE Head(l).children \o Flatten(Tail(l))

\* lines 225-239: the GET, raise_for_status, response.json() and the
\* extraction of the items, or an exception
ExtractItems(resp) ==
    IF resp.kind \in FailureKinds THEN [ok |-> FALSE, items |-> <<>>]
    ELSE IF resp.kind = "dict" THEN [ok |-> TRUE, items |-> resp.children]
    ELSE IF resp.kind = "list"
         THEN [ok |-> TRUE,
               items |-> Flatten(SelectSeq(resp.listings, LAMBDA e : e.isListing))]
    ELSE [ok |-> TRUE, items |-> <<>>]

\* items[:n] of Python: a negative n counts from the end
PySlicePrefix(items, n) ==
    IF n >= 0 THEN Sub(items, 1, IF n < Len(items) THEN n ELSE Len(items))
    ELSE Sub(items, 1, IF Len(items) + n > 0 THEN Len(items) + n ELSE 0)

\* post_data.get('selftext', post_data.get('body', ''))
RawContent(item) ==
    IF "selftext" \in item.keys THEN item.selftext
    ELSE IF "body" \in item.keys THEN item.body
    ELSE <<>>

\* post_data.get('title', post_data.get('link_title', 'No Title'))
RawTitle(item) ==
    IF "title" \in item.keys THEN "T"
    ELSE IF "link_title" \in item.keys THEN "L"
    ELSE "No Title"

RedditPost(item, content_type) ==
    [title |-> RawTitle(item),
     content |-> _clean_content(RawContent(item)),
     post_type |-> content_type]

MinContentLen == 10

\* an item is kept when it is kept by a filter that tests the raw text
KeepsRaw(item) ==
    /\ item.hasData
    /\ Strip(RawContent(item)) # <<>>
    /\ Len(RawContent(item)) > MinContentLen

\* lines 242-264: item['data'] raises for a malformed item, which is skipped;
\* otherwise the post is kept when post.content.strip() is non-empty and
\* len(post.content) > 10
Keeps(item) ==
    /\ item.hasData
    /\ Strip(_clean_content(RawContent(item))) # <<>>
    /\ Len(_clean_content(RawContent(item))) > MinContentLen

\* a slice that keeps max_items + 1 items
SliceOneMore(items, max_items) == PySlicePrefix(items, max_items + 1)

\* items[:max_items]
Examined(items, max_items) == PySlicePrefix(items, max_items)

\* lines 241-264: the loop over items[:max_items]
RECURSIVE LoopFrom(_, _)
LoopFrom(items, content_type) ==
    IF items = <<>> THEN <<>>
    ELSE (IF Keeps(Head(items)) THEN <<RedditPost(Head(items), content_type)>> ELSE <<>>)
         \o LoopFrom(Tail(items), content_type)

ScrapeLoop(items, content_type, max_items) ==
    LoopFrom(Examined(items, max_items), content_type)

(***************************************************************************)
(* UserPersonaModel and PersonaOutputParser                                *)
(*                                                                         *)
(* A model response is a sequence of tokens: an opening brace, a closing   *)
(* brace, a word of prose, a member "key": literal of a JSON object, or a  *)
(* member cut short (invalid JSON).  The literal of a member is decoded by *)
(* JsonValue; the braces nested inside a literal lie between the outer     *)
(* braces of the object and do not move the first '{' or the last '}'.     *)
(***************************************************************************)
StrFields == {"name", "age_range", "location", "occupation", "status", "tier",
              "archetype", "communication_style", "technology_comfort",
              "social_media_behavior"}
ListFields == {"interests", "personality_traits", "goals", "frustrations",
               "preferred_subreddits", "behavior_habits"}
IntMapFields == {"motivations", "personality_percentages"}
ListMapFields == {"citations"}

\* the declared fields of UserPersonaModel, all required (no default)
UserPersonaModel == StrFields \cup ListFields \cup IntMapFields \cup ListMapFields

FieldOrder ==
    <<"name", "age_range", "location", "occupation", "status", "tier",
      "archetype", "interests", "personality_traits", "goals", "frustrations",
      "preferred_subreddits", "communication_style", "technology_comfort",
      "social_media_behavior", "motivations", "behavior_habits",
      "personality_percentages", "citations">>

LBrace == [t |-> "{", key |-> "", lit |-> ""]
RBrace == [t |-> "}", key |-> "", lit |-> ""]
Prose  == [t |-> "prose", key |-> "", lit |-> ""]
Broken == [t |-> "broken", key |-> "", lit |-> ""]
Member(k, l) == [t |-> "member", key |-> k, lit |-> l]

LitStr     == "\"X\""
LitList    == "[\"a\"]"
LitIntMap  == "{\"introversion\": 65}"
LitListMap == "{\"interests\": [\"q\"]}"
LitEmptyMap == "{}"
LitNull    == "null"
LitInt     == "7"
LitIntMapOut == "{\"introversion\": 150, \"intuition\": -5, \"feeling\": 50, \"perceiving\": 50}"
LitListMapMixed == "{\"interests\": [\"q\"], \"goals\": [], \"hobbies\": [\"h\"]}"

\* json.loads of one literal
JsonValue(lit) ==
    CASE lit = LitStr      -> "X"
      [] lit = LitList     -> <<"a">>
      [] lit = LitIntMap   -> [k \in {"introversion"} |-> 65]
      [] lit = LitListMap  -> [k \in {"interests"} |-> <<"q">>]
      [] lit = LitEmptyMap -> [k \in {} |-> 0]
      [] lit = LitNull     -> "null"
      [] lit = LitInt      -> 7
      [] lit = LitIntMapOut ->
            [k \in {"introversion", "intuition", "feeling", "perceiving"} |->
                IF k = "introversion" THEN 150 ELSE IF k = "intuition" THEN -5 ELSE 50]
      [] lit = LitListMapMixed ->
            [k \in {"interests", "goals", "hobbies"} |->
                IF k = "interests" THEN <<"q">> ELSE IF k = "goals" THEN <<>> ELSE <<"h">>]

JsonKind(lit) ==
    CASE lit = LitStr      -> "str"
      [] lit = LitList     -> "list"
      [] lit = LitIntMap   -> "intmap"
      [] lit = LitListMap  -> "listmap"
      [] lit = LitEmptyMap -> "emptymap"
      [] lit = LitNull     -> "null"
      [] lit = LitInt      -> "int"
      [] lit = LitIntMapOut -> "intmap"
      [] lit = LitListMapMixed -> "listmap"

\* the kinds of JSON value that UserPersonaModel accepts for a field
AcceptedKinds(f) ==
    IF f \in StrFields THEN {"str"}
    ELSE IF f \in ListFields THEN {"list"}
    ELSE IF f \in IntMapFields THEN {"intmap", "emptymap"}
    ELSE {"listmap", "emptymap"}

\* re.match instead of re.search: the match is anchored at the start of text
ReMatchBraces(text) ==
    LET closes == {j \in 2..Len(text) : text[j].t = "}"}
    IN  IF text = <<>> \/ text[1].t # "{" \/ closes = {} THEN <<>>
        ELSE Sub(text, 1, Max(closes))

\* re.search(r'\{.*\}', text, re.DOTALL): greedy, from the first '{' to the
\* last '}' after it; <<>> when there is no match.
ReSearchBraces(text) ==
    LET opens  == {i \in 1..Len(text) : text[i].t = "{"}
        closes == {j \in 1..Len(text) : text[j].t = "}"}
    IN  IF opens = {} THEN <<>>
        ELSE IF {j \in closes : j > Min(opens)} = {} THEN <<>>
        ELSE Sub(text, Min(opens), Max(closes))

\* json.loads succeeds on a matched substring: an object is '{', members, '}'
JsonDecodes(m) ==
    /\ Len(m) >= 2
    /\ m[1].t = "{"
    /\ m[Len(m)].t = "}"
    /\ \A i \in 2..(Len(m) - 1) : m[i].t = "member"

\* json.loads: the dict of the members; a repeated key keeps its last literal
json_loads(m) ==
    LET keys == {m[i].key : i \in 2..(Len(m) - 1)}
        last(k) == Max({i \in 2..(Len(m) - 1) : m[i].key = k})
    IN  [k \in keys |-> m[last(k)].lit]

\* UserPersonaModel.model_validate succeeds: every declared field is present
\* with a value of its type
ModelValidates(data) ==
    \A f \in UserPersonaModel :
        /\ f \in DOMAIN data
        /\ JsonKind(data[f]) \in AcceptedKinds(f)

\* UserPersonaModel.model_validate: the declared fields, extra keys ignored
model_validate(data) == [f \in UserPersonaModel |-> JsonValue(data[f])]

_fallback_parse(text) ==
    [f \in UserPersonaModel |->
        CASE f = "name" -> "Unknown User"
          [] f \in StrFields \ {"name"} -> "Unknown"
          [] f \in ListFields -> <<"Unknown">>
          [] f = "motivations" -> [k \in {"unknown"} |-> 50]
          [] f = "personality_percentages" ->
                [k \in {"introversion", "intuition", "feeling", "perceiving"} |-> 50]
          [] f = "citations" -> [k \in {} |-> <<>>]]

\* a parse that fills the fields the response lacks with the fallback values
\* instead of discarding the whole response
parse_merging_defaults(text) ==
    LET json_match == ReSearchBraces(text)
    IN  IF json_match # <<>> /\ JsonDecodes(json_match)
        THEN LET data == json_loads(json_match)
             IN  [f \in UserPersonaModel |->
                    IF f \in DOMAIN data /\ JsonKind(data[f]) \in AcceptedKinds(f)
                    THEN JsonValue(data[f])
                    ELSE _fallback_parse(text)[f]]
        ELSE _fallback_parse(text)

\* PersonaOutputParser.parse: every exception of the try block is caught
parse(text) ==
    LET json_match == ReSearchBraces(text)
    IN  IF json_match # <<>>
        THEN IF JsonDecodes(json_match) /\ ModelValidates(json_loads(json_match))
             THEN model_validate(json_loads(json_match))
             ELSE _fallback_parse(text)
        ELSE _fallback_parse(text)

(***************************************************************************)
(* The model responses given to the parser: prose, an object, prose        *)
(***************************************************************************)
ProseTokens == {Prose, LBrace, RBrace}

\* a literal of the type of field f
ValidLit(f) ==
    IF f \in StrFields THEN LitStr
    ELSE IF f \in ListFields THEN LitList
    ELSE IF f \in IntMapFields THEN LitIntMap
    ELSE LitListMap

\* the object whose member for field g has literal l and whose other members
\* are valid
ObjectWith(g, l) ==
    <<LBrace>>
    \o [i \in 1..Len(FieldOrder) |->
          Member(FieldOrder[i], IF FieldOrder[i] = g THEN l ELSE ValidLit(FieldOrder[i]))]
    \o <<RBrace>>

FullObject == ObjectWith("", "")

\* the object without its member for field g
ObjectWithout(g) == SelectSeq(FullObject, LAMBDA tk : tk.key # g)

\* objects that are fully valid against the schema
ValidObjects ==
    {FullObject,
     ObjectWith("citations", LitEmptyMap),
     ObjectWith("motivations", LitEmptyMap),
     ObjectWith("personality_percentages", LitIntMapOut),
     ObjectWith("citations", LitListMapMixed),
     Sub(FullObject, 1, Len(FullObject) - 1) \o <<Member("extra", LitInt), RBrace>>}

\* objects that decode but fail validation
InvalidObjects ==
    {ObjectWithout(g) : g \in UserPersonaModel}
    \cup {ObjectWith(g, LitNull) : g \in UserPersonaModel}
    \cup {ObjectWith("name", LitInt), ObjectWith("interests", LitStr),
          ObjectWith("motivations", LitListMap), ObjectWith("citations", LitIntMap),
          <<LBrace, RBrace>>}

\* truncated or otherwise undecodable objects
UndecodableObjects ==
    {Sub(FullObject, 1, Len(FullObject) - 1),
     Sub(FullObject, 1, 3) \o <<Broken>>,
     Sub(FullObject, 1, 3) \o <<Broken, RBrace>>,
     <<LBrace, Prose, RBrace>>}

ResponseBodies == {<<>>} \cup ValidObjects \cup InvalidObjects \cup UndecodableObjects

(***************************************************************************)
(* State                                                                   *)
(***************************************************************************)
VARIABLES
    content,      \* the argument of a call of _clean_content
    cleaned,      \* its return value
    cleanPc,      \* "ready" before the call, "done" after it
    respPre,      \* the model response given to parse: the prose before,
    respBody,     \*   the object (or nothing),
    respPost,     \*   the prose after
    parsed,       \* the value returned by parse
    parsePc,      \* "ready" before the call, "done" after it
    profile_url,  \* the arguments of scrape_profile
    max_posts,
    scrapePc,     \* the position of scrape_profile
    posts,        \* the list scrape_profile accumulates and returns
    got,          \* the list each call of _scrape_content returned
    response,     \* the category and the upstream response held by the running
                  \*   call of _scrape_content, NoFetch when none runs
    events,       \* the GETs, pauses and error logs of the scraper, in order
    args,         \* main: the parsed command line (url, max_posts)
    groq_api_key, \* main: whether GROQ_API_KEY is set
    mainPc,       \* main: "start", "loop", "done", "no_key"
    profile_urls, \* main: the list of profile URLs
    idx,          \* main: the position of the for loop in profile_urls
    successful_processes,
    console,      \* the lines printed, in order
    psuPc,        \* the position of process_single_user
    username,     \* process_single_user: the user name cut from the URL
    persona,      \* process_single_user: the persona generated
    filepath,     \* the value process_single_user returned
    files,        \* the files of the output directory, by user name
    filesBefore,  \* the files when the running process_single_user began
    formatArg,    \* the list of posts given to _format_posts_for_llm
    formatted_posts, \* _format_posts_for_llm: the blocks appended so far
    formatted,    \* the text _format_posts_for_llm returned
    formatPc      \* the position of _format_posts_for_llm

cleanVars == <<content, cleaned, cleanPc>>
parseVars == <<respPre, respBody, respPost, parsed, parsePc>>
scrapeVars == <<profile_url, max_posts, scrapePc, posts, got, response, events>>
mainVars == <<args, groq_api_key, mainPc, profile_urls, idx, successful_processes,
              console, psuPc, username, persona, filepath, files, filesBefore>>
formatVars == <<formatArg, formatted_posts, formatted, formatPc>>
vars == <<cleanVars, parseVars, scrapeVars, mainVars, formatVars>>

IdleClean == content = <<>> /\ cleaned = <<>> /\ cleanPc = "idle"
IdleParse == /\ respPre = <<>> /\ respBody = <<>> /\ respPost = <<>>
             /\ parsed = <<>> /\ parsePc = "idle"
IdleFormat == /\ formatArg = <<>> /\ formatted_posts = <<>> /\ formatted = <<>>
              /\ formatPc = "idle"
NoFetch == [cat |-> "none", resp |-> Response("scalar", <<>>, <<>>)]
NothingGot == [post |-> <<>>, comment |-> <<>>]
IdleScrape == /\ profile_url = <<>> /\ max_posts = 0 /\ scrapePc = "idle"
              /\ posts = <<>> /\ got = NothingGot /\ response = NoFetch
              /\ events = <<>>
NoPath == [dir |-> "", user |-> <<>>]
IdleMain == /\ args = [url |-> <<>>, max_posts |-> 0] /\ groq_api_key = FALSE
            /\ mainPc = "idle" /\ profile_urls = <<>> /\ idx = 0
            /\ successful_processes = 0 /\ console = <<>> /\ psuPc = "idle"
            /\ username = <<>> /\ persona = <<>> /\ filepath = NoPath
            /\ files = <<>> /\ filesBefore = <<>>

(***************************************************************************)
(* SpecClean: calls of _clean_content on every string up to MaxLen         *)
(***************************************************************************)
InitClean ==
    /\ content \in SeqsUpTo(CleanAlphabet, MaxLen)
    /\ cleaned = <<>>
    /\ cleanPc = "ready"
    /\ IdleParse
    /\ IdleScrape
    /\ IdleMain
    /\ IdleFormat

CleanContentCall ==
    /\ cleanPc = "ready"
    /\ cleaned' = _clean_content(content)
    /\ cleanPc' = "done"
    /\ UNCHANGED <<content, parseVars, scrapeVars, mainVars, formatVars>>

NextClean == CleanContentCall

SpecClean == InitClean /\ [][NextClean]_vars

\* the lines of a string (split on newline), as sets of positions
SameLine(s, i, j) == \A k \in i..j : s[k] # NL

\* C10 (as stated): the output of _clean_content contains no bold (**),
\* italic (*) or strikethrough (~~) marker at all.
C10_NoMarkerAtAll ==
    cleanPc = "done" =>
        /\ ~Contains(cleaned, <<"*">>)
        /\ ~Contains(cleaned, <<"~", "~">>)

\* C10 (amended): the output of _clean_content contains no paired marker: no
\* bold marker **, no two * on one line, and no two non-overlapping ~~ on one
\* line.
C10_NoPairedMarker ==
    cleanPc = "done" =>
        /\ ~Contains(cleaned, <<"*", "*">>)
        /\ \A i, j \in 1..Len(cleaned) :
              (i < j /\ cleaned[i] = "*" /\ cleaned[j] = "*")
                  => ~SameLine(cleaned, i, j)
        /\ \A i, j \in 1..Len(cleaned) :
              (i + 2 <= j /\ OccursAt(cleaned, <<"~", "~">>, i)
                          /\ OccursAt(cleaned, <<"~", "~">>, j))
                  => ~SameLine(cleaned, i, j)

\* a call that removed a bold pair, an italic pair and left text behind
C10_Witness ==
    /\ cleanPc = "done"
    /\ Contains(content, <<"*", "*">>)
    /\ Contains(content, <<"~", "~">>)
    /\ Len(cleaned) < Len(content)
    /\ cleaned # <<>>

\* C11: _clean_content is idempotent: cleaning the output of _clean_content
\* again returns it unchanged.
C11_CleanIdempotent ==
    cleanPc = "done" => _clean_content(cleaned) = cleaned

\* a call that changed its input and left an unpaired marker and a blank line
\* in its output
C11_Witness ==
    /\ cleanPc = "done"
    /\ cleaned # content
    /\ Contains(cleaned, <<"*">>)
    /\ Contains(cleaned, <<NL, NL>>)

(***************************************************************************)
(* SpecParse: calls of PersonaOutputParser.parse                           *)
(***************************************************************************)
InitParse ==
    /\ respPre \in SeqsUpTo(ProseTokens, MaxProse)
    /\ respBody \in ResponseBodies
    /\ respPost \in SeqsUpTo(ProseTokens, MaxProse)
    /\ parsed = <<>>
    /\ parsePc = "ready"
    /\ IdleClean
    /\ IdleScrape
    /\ IdleMain
    /\ IdleFormat

responseText == respPre \o respBody \o respPost

ParseCall ==
    /\ parsePc = "ready"
    /\ parsed' = parse(responseText)
    /\ parsePc' = "done"
    /\ UNCHANGED <<respPre, respBody, respPost, cleanVars, scrapeVars, mainVars,
                   formatVars>>

NextParse == ParseCall

SpecParse == InitParse /\ [][NextParse]_vars

\* the complete default record, written out
DefaultRecord ==
    [f \in UserPersonaModel |->
        IF f = "name" THEN "Unknown User"
        ELSE IF f \in StrFields THEN "Unknown"
        ELSE IF f \in ListFields THEN <<"Unknown">>
        ELSE IF f = "personality_percentages"
             THEN [k \in {"introversion", "intuition", "feeling", "perceiving"} |-> 50]
        ELSE IF f = "motivations" THEN [k \in {"unknown"} |-> 50]
        ELSE <<>>]

Malformed(text) ==
    \/ ReSearchBraces(text) = <<>>
    \/ ~JsonDecodes(ReSearchBraces(text))
    \/ ~ModelValidates(json_loads(ReSearchBraces(text)))

\* C3: for a response with no brace-delimited substring, an undecodable one or
\* one that fails validation, parse returns the complete default record and
\* takes no field from the response.
C3_MalformedGivesDefault ==
    (parsePc = "done" /\ Malformed(responseText)) => parsed = DefaultRecord

\* a response whose object is valid for some fields and lacks another
C3_Witness ==
    /\ parsePc = "done"
    /\ respBody = ObjectWithout("citations")
    /\ respPre = <<Prose>>
    /\ parsed = DefaultRecord

\* the record decoded from an object: each declared field has the value of
\* its member
DecodedFrom(obj) ==
    [f \in UserPersonaModel |->
        JsonValue((CHOOSE tk \in Range(obj) : tk.key = f).lit)]

\* C4 (as stated): prose, a fully valid object, prose: parse returns the record
\* decoded from the object, whatever the prose is.
C4_AnyProse ==
    (parsePc = "done" /\ respBody \in ValidObjects) => parsed = DecodedFrom(respBody)

\* C4 (amended): the same, provided the prose before the object has no '{' and
\* the prose after it has no '}'.
C4_ProseWithoutBraces ==
    (/\ parsePc = "done"
     /\ respBody \in ValidObjects
     /\ LBrace \notin Range(respPre)
     /\ RBrace \notin Range(respPost))
        => parsed = DecodedFrom(respBody)

C4_Witness ==
    /\ parsePc = "done"
    /\ respBody = FullObject
    /\ respPre = <<Prose, RBrace>>
    /\ respPost = <<LBrace, Prose>>
    /\ parsed["name"] = "X"

(***************************************************************************)
(* RedditScraper.scrape_profile, step by step                              *)
(***************************************************************************)
delay == 2

Event(e, c) == [ev |-> e, cat |-> c]

\* lines 185-191: the URL is validated before anything else
ScrapeValidate ==
    /\ scrapePc = "validate"
    /\ scrapePc' = IF _is_valid_reddit_url(profile_url) THEN "get_post" ELSE "raised"
    /\ posts' = <<>>
    /\ UNCHANGED <<profile_url, max_posts, got, response, events>>
    /\ UNCHANGED <<cleanVars, parseVars, formatVars, mainVars>>

NextAfter(content_type) == IF content_type = "post" THEN "get_comment" ELSE "returned"

\* an exception of the fetch that is not caught in _scrape_content
AfterFailureRaise(content_type) == "raised"

\* lines 268-271: the exception is logged and the empty list returned, so the
\* caller goes on
AfterFailure(content_type) == NextAfter(content_type)

\* lines 219-264 of _scrape_content(url, content_type, max_posts // 2): the GET
\* and the loop.  An exception of the GET, of raise_for_status, of
\* response.json() or of the extraction is logged and the call returns its
\* empty list at once; otherwise the call goes on to its pause.
ScrapeGet(content_type, upstream) ==
    /\ scrapePc = "get_" \o content_type
    /\ \E resp \in upstream :
          LET ex == ExtractItems(resp)
          IN  /\ IF ex.ok
                 THEN /\ response' = [cat |-> content_type, resp |-> resp]
                      /\ got' = [got EXCEPT ![content_type] =
                                    ScrapeLoop(ex.items, content_type, max_posts \div 2)]
                      /\ events' = Append(events, Event("get", content_type))
                      /\ scrapePc' = "sleep_" \o content_type
                      /\ UNCHANGED posts
                 ELSE /\ response' = NoFetch
                      /\ got' = [got EXCEPT ![content_type] = <<>>]
                      /\ events' = events \o <<Event("get", content_type),
                                               Event("log_error", content_type)>>
                      /\ scrapePc' = AfterFailure(content_type)
                      /\ posts' = posts \o <<>>
    /\ UNCHANGED <<profile_url, max_posts>>
    /\ UNCHANGED <<cleanVars, parseVars, formatVars, mainVars>>

\* lines 266-271 and the posts.extend of the caller: time.sleep(self.delay),
\* then the list is returned and appended
ScrapeSleep(content_type) ==
    /\ scrapePc = "sleep_" \o content_type
    /\ events' = Append(events, [ev |-> "sleep", cat |-> content_type])
    /\ posts' = posts \o got[content_type]
    /\ scrapePc' = NextAfter(content_type)
    /\ response' = NoFetch
    /\ UNCHANGED <<profile_url, max_posts, got>>
    /\ UNCHANGED <<cleanVars, parseVars, formatVars, mainVars>>

(***************************************************************************)
(* SpecScrape: calls of scrape_profile                                     *)
(***************************************************************************)
UrlPrefixes == {<<>>, <<"https:", "//">>}
UrlHosts == {"www.reddit.com", "reddit.com", "old.reddit.com", "evil.com"}
UrlPaths == {<<>>, <<"/user/", "name">>, <<"/user/", "name", "/">>, <<"/u/", "name">>}
UrlQueries == {<<>>, <<"?", "/user/">>}

ProfileUrls ==
    {pre \o <<h>> \o pa \o q :
        pre \in UrlPrefixes, h \in UrlHosts, pa \in UrlPaths, q \in UrlQueries}

MaxPostsValues == -1..4

InitScrape ==
    /\ profile_url \in ProfileUrls
    /\ max_posts \in MaxPostsValues
    /\ scrapePc = "validate"
    /\ posts = <<>>
    /\ got = NothingGot
    /\ response = NoFetch
    /\ events = <<>>
    /\ IdleClean
    /\ IdleParse
    /\ IdleMain
    /\ IdleFormat

NextScrape ==
    \/ ScrapeValidate
    \/ ScrapeGet("post", Responses)
    \/ ScrapeSleep("post")
    \/ ScrapeGet("comment", Responses)
    \/ ScrapeSleep("comment")

SpecScrape == InitScrape /\ [][NextScrape]_vars

\* C1 (as stated): for every integer max_posts, scrape_profile returns at most
\* max_posts items.
C1_AtMostMaxPosts ==
    scrapePc = "returned" => Len(posts) <= max_posts

\* C1 (amended): for every max_posts >= 0, scrape_profile returns at most
\* max_posts items, at most floor(max_posts / 2) of them from each category.
C1_AtMostMaxPostsNonNegative ==
    (scrapePc = "returned" /\ max_posts >= 0) =>
        /\ Len(posts) <= max_posts
        /\ \A c \in {"post", "comment"} : 2 * Len(got[c]) <= max_posts

\* upstream listed more items than the cap, and the result will be full
C1_Witness ==
    /\ scrapePc = "sleep_comment"
    /\ max_posts = 2
    /\ Len(got["post"]) = 1
    /\ Len(got["comment"]) = 1
    /\ response.resp.kind = "dict"
    /\ Len(response.resp.children) = 2

C1_WitnessReturned ==
    scrapePc = "returned" /\ max_posts = 3 /\ Len(posts) = 2

\* the cleaned contents of the examined items of the running fetch that
\* satisfy P, in order
KeptContents(P(_)) ==
    LET ex == Examined(ExtractItems(response.resp).items, max_posts \div 2)
        kept == SelectSeq(ex, P)
    IN  [i \in 1..Len(kept) |-> _clean_content(RawContent(kept[i]))]

GotContents == [i \in 1..Len(got[response.cat]) |-> got[response.cat][i].content]

FetchProcessed == response.cat # "none"

AtLeast10(item) == item.hasData /\ Len(_clean_content(RawContent(item))) >= 10
MoreThan10(item) == item.hasData /\ Len(_clean_content(RawContent(item))) > 10

\* C2 (as stated): of the well-formed items examined, exactly those whose
\* cleaned content has 10 characters or more are in the result.
C2_KeptIffAtLeast10 ==
    FetchProcessed => GotContents = KeptContents(AtLeast10)

\* C2 (amended): of the well-formed items examined, exactly those whose cleaned
\* content has more than 10 characters are in the result; an item of 10
\* characters or fewer is discarded.
C2_KeptIffMoreThan10 ==
    FetchProcessed => GotContents = KeptContents(MoreThan10)

\* a fetch that examined an item of 9 cleaned characters (11 raw) and one of 11
C2_Witness ==
    /\ FetchProcessed
    /\ response.resp.children = <<Comment9, Comment11>>
    /\ max_posts = 4
    /\ Len(got[response.cat]) = 1

Gets == {i \in 1..Len(events) : events[i].ev = "get"}

\* C5: for a URL whose host is not accepted or whose path has no /user/,
\* scrape_profile raises before any GET.
C5_InvalidUrlRaisesBeforeFetch ==
    (/\ scrapePc \notin {"idle", "validate"}
     /\ \/ urlparse(profile_url).netloc \notin AcceptedNetlocs
        \/ "/user/" \notin Range(urlparse(profile_url).path))
        => (scrapePc = "raised" /\ Gets = {})

\* an accepted host whose only /user/ is in the query
C5_Witness ==
    /\ scrapePc = "raised"
    /\ profile_url = <<"https:", "//", "www.reddit.com", "/u/", "name", "?", "/user/">>

LoggedError(c) == \E i \in 1..Len(events) : events[i] = Event("log_error", c)

\* C6: a failed fetch of one category gives the empty list for that category
\* only: the other category is still fetched and its items are returned, and
\* scrape_profile does not raise.
C6_FailureOfOneCategoryOnly ==
    /\ \A c \in {"post", "comment"} : LoggedError(c) => got[c] = <<>>
    /\ scrapePc = "returned" =>
          /\ \A c \in {"post", "comment"} : \E i \in Gets : events[i].cat = c
          /\ posts = got["post"] \o got["comment"]
    /\ (LoggedError("post") /\ scrapePc = "sleep_comment") =>
          GotContents = KeptContents(MoreThan10)
    /\ _is_valid_reddit_url(profile_url) => scrapePc # "raised"

\* the submitted fetch failed and the comments fetch returned an item
C6_Witness ==
    /\ scrapePc = "returned"
    /\ LoggedError("post")
    /\ Len(posts) = 1
    /\ posts[1].post_type = "comment"

\* the submitted fetch returned an item and the comments fetch failed
C6_WitnessOther ==
    /\ scrapePc = "returned"
    /\ LoggedError("comment")
    /\ Len(posts) = 1
    /\ posts[1].post_type = "post"

\* C9: when both GETs are issued, a pause lies between them.
C9_PauseBetweenFetches ==
    \A i, j \in Gets :
        (events[i].cat = "post" /\ events[j].cat = "comment")
            => \E k \in (i + 1)..(j - 1) : events[k].ev = "sleep"

(***************************************************************************)
(* PersonaWriter.write_persona_to_file: the report, section by section     *)
(***************************************************************************)
Chunk(sec, b) == [section |-> sec, body |-> b]

\* dict.get(key, 50)
GetOr50(d, k) == IF k \in DOMAIN d THEN d[k] ELSE 50

\* the categories of the citations map, in the order of the prompt's schema
CategoryOrder ==
    <<"interests", "personality_traits", "goals", "frustrations", "occupation",
      "location", "age_range", "status", "tier", "archetype",
      "communication_style", "technology_comfort", "social_media_behavior",
      "motivations", "behavior_habits", "personality_percentages">>

RECURSIVE SetToSeq(_)
SetToSeq(S) ==
    IF S = {} THEN <<>>
    ELSE LET x == CHOOSE y \in S : TRUE IN <<x>> \o SetToSeq(S \ {x})

\* persona.citations.items(): the categories of the map, those of the schema
\* in its order, then the others
CitationKeys(citations) ==
    SelectSeq(CategoryOrder, LAMBDA c : c \in DOMAIN citations)
    \o SetToSeq(DOMAIN citations \ Range(CategoryOrder))

\* a loop that writes the header of every category, empty or not
RECURSIVE CitationChunksAll(_, _)
CitationChunksAll(citations, i) ==
    IF i > Len(CitationKeys(citations)) THEN <<>>
    ELSE LET category == CitationKeys(citations)[i]
         IN  <<Chunk("CITATIONS OF " \o category, citations[category])>>
             \o CitationChunksAll(citations, i + 1)

\* lines 601-606: a header and the quotes of each category whose list is
\* not empty
RECURSIVE CitationChunks(_, _)
CitationChunks(citations, i) ==
    IF i > Len(CitationKeys(citations)) THEN <<>>
    ELSE LET category == CitationKeys(citations)[i]
         IN  (IF citations[category] # <<>>
              THEN <<Chunk("CITATIONS OF " \o category, citations[category])>>
              ELSE <<>>)
             \o CitationChunks(citations, i + 1)

\* lines 512-606: what a complete report holds
Render(p, user) ==
    <<Chunk("USER PERSONA FOR REDDIT USER", user),
      Chunk("BASIC DEMOGRAPHICS",
            <<p["name"], p["age_range"], p["location"], p["occupation"],
              p["status"], p["tier"], p["archetype"]>>),
      Chunk("INTERESTS", p["interests"]),
      Chunk("PERSONALITY TRAITS", p["personality_traits"]),
      Chunk("PERSONALITY ASSESSMENT (MBTI-Style)",
            <<GetOr50(p["personality_percentages"], "introversion"),
              GetOr50(p["personality_percentages"], "intuition"),
              GetOr50(p["personality_percentages"], "feeling"),
              GetOr50(p["personality_percentages"], "perceiving")>>),
      Chunk("GOALS & ASPIRATIONS", p["goals"]),
      Chunk("MOTIVATIONS (Intensity Scores)", p["motivations"]),
      Chunk("FRUSTRATIONS & PAIN POINTS", p["frustrations"]),
      Chunk("BEHAVIOR & HABITS", p["behavior_habits"]),
      Chunk("PREFERRED SUBREDDITS", p["preferred_subreddits"]),
      Chunk("BEHAVIORAL INSIGHTS",
            <<p["communication_style"], p["technology_comfort"],
              p["social_media_behavior"]>>),
      Chunk("SUPPORTING EVIDENCE & CITATIONS", <<>>)>>
    \o CitationChunks(p["citations"], 1)

File(e, c) == [exists |-> e, chunks |-> c]
NoFile == File(FALSE, <<>>)
OldReport == File(TRUE, <<Chunk("USER PERSONA FOR REDDIT USER", <<"old">>)>>)

(***************************************************************************)
(* process_single_user and main                                            *)
(***************************************************************************)
DefaultUrls ==
    <<<<"https:", "//", "www.reddit.com", "/user/", "kojied", "/">>,
      <<"https:", "//", "www.reddit.com", "/user/", "Hungry-Move-6603", "/">>>>

\* the URLs given with --url or typed at the prompt
GivenUrls ==
    {<<"https:", "//", "old.reddit.com", "/user/", "name">>,
     <<"https:", "//", "evil.com", "/user/", "name">>,
     <<"https:", "//", "www.reddit.com", "/u/", "name">>}

\* str.rstrip('/') on the tokens of a URL
RECURSIVE RStripSlash(_)
RStripSlash(url) ==
    IF url # <<>> /\ url[Len(url)] = "/" THEN RStripSlash(Sub(url, 1, Len(url) - 1))
    ELSE url

\* line 615: profile_url.split('/user/')[-1].rstrip('/')
UsernameOf(url) ==
    LET at == {i \in 1..Len(url) : url[i] = "/user/"}
    IN  RStripSlash(IF at = {} THEN url ELSE Sub(url, Max(at) + 1, Len(url)))

Usernames == {UsernameOf(u) : u \in GivenUrls \cup Range(DefaultUrls)}

DefaultMaxPosts == 50

\* the upstream responses the profiles of a run of main answer with
MainResponses ==
    {Response("conn_error", <<>>, <<>>),
     Response("dict", <<Post10>>, <<>>),
     Response("dict", <<Comment11, Post11>>, <<>>)}

\* the texts the model answers with
LlmResponses ==
    {<<Prose>> \o FullObject \o <<Prose>>,
     <<Prose>>}

Line(k, u, n, m) == [kind |-> k, user |-> u, n |-> n, of |-> m]

\* an exception that leaves process_single_user
OnProfileExceptionPropagate == "propagated"

\* lines 644-647: every exception of the try block is caught, logged and
\* printed, and process_single_user returns ""
OnProfileException == "returned"

ProfileFails ==
    /\ console' = Append(console, Line("error", username, 0, 0))
    /\ filepath' = NoPath
    /\ psuPc' = OnProfileException

\* lines 650-684
MainStart ==
    /\ mainPc = "start"
    /\ IF ~groq_api_key
       THEN /\ console' = Append(console, Line("no_key", <<>>, 0, 0))
            /\ mainPc' = "no_key"
            /\ UNCHANGED <<profile_urls, idx>>
       ELSE /\ \E typed \in {<<>>} \cup GivenUrls :
                 profile_urls' = IF args.url # <<>> THEN <<args.url>>
                                 ELSE IF typed # <<>> THEN <<typed>>
                                 ELSE DefaultUrls
            /\ console' = Append(console, Line("starting", <<>>, 0, 0))
            /\ mainPc' = "loop"
            /\ idx' = 1
    /\ UNCHANGED <<cleanVars, parseVars, formatVars>>
    /\ UNCHANGED <<args, groq_api_key, successful_processes, psuPc, username,
                   persona, filepath, files, filesBefore, scrapeVars>>

\* lines 688-689 and 615-627: the call of process_single_user, up to its call
\* of scrape_profile(profile_url, max_posts=50)
ProcessSingleUser ==
    /\ mainPc = "loop"
    /\ psuPc = "idle"
    /\ idx <= Len(profile_urls)
    /\ username' = UsernameOf(profile_urls[idx])
    /\ console' = Append(console, Line("processing", UsernameOf(profile_urls[idx]), 0, 0))
    /\ profile_url' = profile_urls[idx]
    /\ max_posts' = DefaultMaxPosts
    /\ scrapePc' = "validate"
    /\ posts' = <<>>
    /\ got' = NothingGot
    /\ response' = NoFetch
    /\ events' = <<>>
    /\ filesBefore' = files
    /\ psuPc' = "scrape"
    /\ UNCHANGED <<cleanVars, parseVars, formatVars>>
    /\ UNCHANGED <<args, groq_api_key, mainPc, profile_urls, idx,
                   successful_processes, persona, filepath, files>>

\* lines 627-633
AfterScrape ==
    /\ psuPc = "scrape"
    /\ scrapePc \in {"returned", "raised"}
    /\ IF scrapePc = "raised" THEN ProfileFails
       ELSE IF posts = <<>>
            THEN /\ console' = Append(console, Line("no_posts", username, 0, 0))
                 /\ filepath' = NoPath
                 /\ psuPc' = "returned"
            ELSE /\ console' = Append(console, Line("found", username, Len(posts), 0))
                 /\ psuPc' = "generate"
                 /\ UNCHANGED filepath
    /\ UNCHANGED <<cleanVars, parseVars, formatVars>>
    /\ UNCHANGED <<args, groq_api_key, mainPc, profile_urls, idx,
                   successful_processes, username, persona, files, filesBefore,
                   scrapeVars>>

\* line 636, generate_persona (lines 438-477): the chain raises, or the text of
\* the model is parsed and copied into a UserPersona
GeneratePersona ==
    /\ psuPc = "generate"
    /\ \/ /\ ProfileFails
          /\ UNCHANGED persona
       \/ \E text \in LlmResponses :
             /\ persona' = [f \in UserPersonaModel |-> parse(text)[f]]
             /\ psuPc' = "open"
             /\ UNCHANGED <<console, filepath>>
    /\ UNCHANGED <<cleanVars, parseVars, formatVars>>
    /\ UNCHANGED <<args, groq_api_key, mainPc, profile_urls, idx,
                   successful_processes, username, files, filesBefore, scrapeVars>>

\* lines 506-511: os.makedirs and open(filepath, 'w'), which creates the file
\* or truncates it, or fails
WriteOpen ==
    /\ psuPc = "open"
    /\ \/ /\ ProfileFails
          /\ UNCHANGED files
       \/ /\ files' = [files EXCEPT ![username] = File(TRUE, <<>>)]
          /\ psuPc' = "write"
          /\ UNCHANGED <<console, filepath>>
    /\ UNCHANGED <<cleanVars, parseVars, formatVars>>
    /\ UNCHANGED <<args, groq_api_key, mainPc, profile_urls, idx,
                   successful_processes, username, persona, filesBefore, scrapeVars>>

\* lines 512-606: the next section is written, or a write raises and the with
\* statement closes the file with what was written
WriteSection ==
    /\ psuPc = "write"
    /\ Len(files[username].chunks) < Len(Render(persona, username))
    /\ \/ /\ ProfileFails
          /\ UNCHANGED files
       \/ /\ files' = [files EXCEPT ![username].chunks =
                          Append(@, Render(persona, username)[Len(@) + 1])]
          /\ UNCHANGED <<console, filepath, psuPc>>
    /\ UNCHANGED <<cleanVars, parseVars, formatVars>>
    /\ UNCHANGED <<args, groq_api_key, mainPc, profile_urls, idx,
                   successful_processes, username, persona, filesBefore, scrapeVars>>

\* lines 608-609 and 641-642: the file is closed and its path returned
WriteDone ==
    /\ psuPc = "write"
    /\ Len(files[username].chunks) = Len(Render(persona, username))
    /\ console' = Append(console, Line("saved", username, 0, 0))
    /\ filepath' = [dir |-> "output", user |-> username]
    /\ psuPc' = "returned"
    /\ UNCHANGED <<cleanVars, parseVars, formatVars>>
    /\ UNCHANGED <<args, groq_api_key, mainPc, profile_urls, idx,
                   successful_processes, username, persona, files, filesBefore,
                   scrapeVars>>

\* lines 689-691: back in the loop of main; the objects of the call are gone
NextProfile ==
    /\ mainPc = "loop"
    /\ psuPc = "returned"
    /\ successful_processes' =
          IF filepath # NoPath THEN successful_processes + 1 ELSE successful_processes
    /\ idx' = idx + 1
    /\ psuPc' = "idle"
    /\ username' = <<>>
    /\ persona' = <<>>
    /\ filepath' = NoPath
    /\ profile_url' = <<>>
    /\ max_posts' = 0
    /\ scrapePc' = "idle"
    /\ posts' = <<>>
    /\ got' = NothingGot
    /\ response' = NoFetch
    /\ events' = <<>>
    /\ UNCHANGED <<cleanVars, parseVars, formatVars>>
    /\ UNCHANGED <<args, groq_api_key, mainPc, profile_urls, console, files,
                   filesBefore>>

\* lines 693-696: the tally
MainFinish ==
    /\ mainPc = "loop"
    /\ psuPc = "idle"
    /\ idx > Len(profile_urls)
    /\ console' = Append(console, Line("tally", <<>>, successful_processes, Len(profile_urls)))
    /\ mainPc' = "done"
    /\ UNCHANGED <<cleanVars, parseVars, formatVars>>
    /\ UNCHANGED <<args, groq_api_key, profile_urls, idx, successful_processes,
                   psuPc, username, persona, filepath, files, filesBefore, scrapeVars>>

MaxPostsFlags == {1, DefaultMaxPosts}

Init ==
    /\ args \in [url : {<<>>} \cup GivenUrls, max_posts : MaxPostsFlags]
    /\ groq_api_key \in BOOLEAN
    /\ mainPc = "start"
    /\ profile_urls = <<>>
    /\ idx = 0
    /\ successful_processes = 0
    /\ console = <<>>
    /\ psuPc = "idle"
    /\ username = <<>>
    /\ persona = <<>>
    /\ filepath = NoPath
    /\ files \in {[u \in Usernames |-> NoFile], [u \in Usernames |-> OldReport]}
    /\ filesBefore = files
    /\ IdleScrape
    /\ IdleClean
    /\ IdleParse
    /\ IdleFormat

Next ==
    \/ MainStart
    \/ ProcessSingleUser
    \/ ScrapeValidate
    \/ ScrapeGet("post", MainResponses)
    \/ ScrapeSleep("post")
    \/ ScrapeGet("comment", MainResponses)
    \/ ScrapeSleep("comment")
    \/ AfterScrape
    \/ GeneratePersona
    \/ WriteOpen
    \/ WriteSection
    \/ WriteDone
    \/ NextProfile
    \/ MainFinish

Spec == Init /\ [][Next]_vars

\* every call blocks until it completes or times out, so a run goes on
FairSpec == Spec /\ WF_vars(Next)

HasLine(k, u) == \E i \in 1..Len(console) : console[i].kind = k /\ console[i].user = u

\* a profile of the run failed with an exception (an invalid URL, a failure of
\* the generation, a failure while writing)
SomeProfileFailed == \E i \in 1..Len(console) : console[i].kind = "error"

\* the run ended: every profile URL of the list was processed and the tally
\* successful/total is the last line printed
RunEnded ==
    /\ mainPc = "done"
    /\ \A i \in 1..Len(profile_urls) : HasLine("processing", UsernameOf(profile_urls[i]))
    /\ console[Len(console)] =
          Line("tally", <<>>, successful_processes, Len(profile_urls))
    /\ successful_processes = Cardinality({i \in 1..Len(console) : console[i].kind = "saved"})

\* C7: a failure of one profile aborts only that profile: every later profile
\* of the list is still processed and the run ends by printing the tally.
C7_FailureAbortsOnlyThatProfile == SomeProfileFailed ~> RunEnded

\* the first of two profiles failed, the second was processed and saved
C7_Witness ==
    /\ mainPc = "done"
    /\ Len(profile_urls) = 2
    /\ \E i, j \in 1..Len(console) :
          /\ i < j
          /\ console[i] = Line("error", UsernameOf(profile_urls[1]), 0, 0)
          /\ console[j] = Line("saved", UsernameOf(profile_urls[2]), 0, 0)
    /\ console[Len(console)] = Line("tally", <<>>, 1, 2)

\* C8: no partial persona file: after a profile is processed, either it
\* succeeded and its file holds the complete report, or it failed and no file
\* was created or modified.
C8_NoPartialFile ==
    psuPc = "returned" =>
        IF filepath # NoPath
        THEN /\ files[username] = File(TRUE, Render(persona, username))
             /\ \A u \in Usernames \ {username} : files[u] = filesBefore[u]
        ELSE files = filesBefore

\* C14: in a run of main started with the max-posts flag M, every profile is
\* scraped with requested max item count M, and no profile's fetched list has
\* more than M items.
C14_MaxPostsFlagReachesScraper ==
    psuPc = "scrape" =>
        /\ max_posts = args.max_posts
        /\ scrapePc = "returned" => Len(posts) <= args.max_posts

\* C12: every record that leaves the parser has every motivation intensity
\* and every personality percentage between 0 and 100, and its
\* personality-percentages map has the four named axes.
C12_PercentagesInRange ==
    parsePc = "done" =>
        /\ \A k \in DOMAIN parsed["motivations"] : parsed["motivations"][k] \in 0..100
        /\ DOMAIN parsed["personality_percentages"] =
              {"introversion", "intuition", "feeling", "perceiving"}
        /\ \A k \in DOMAIN parsed["personality_percentages"] :
              parsed["personality_percentages"][k] \in 0..100

(***************************************************************************)
(* SpecWrite: calls of write_persona_to_file                               *)
(***************************************************************************)
\* the personas given to the writer: those the parser returns
WritePersonas == {parse(<<Prose>> \o b) : b \in ValidObjects \cup {<<>>}}

InitWrite ==
    /\ persona \in WritePersonas
    /\ username \in Usernames
    /\ files \in {[u \in Usernames |-> NoFile], [u \in Usernames |-> OldReport]}
    /\ filesBefore = files
    /\ psuPc = "open"
    /\ filepath = NoPath
    /\ console = <<>>
    /\ args = [url |-> <<>>, max_posts |-> 0]
    /\ groq_api_key = FALSE
    /\ mainPc = "idle"
    /\ profile_urls = <<>>
    /\ idx = 0
    /\ successful_processes = 0
    /\ IdleScrape
    /\ IdleClean
    /\ IdleParse
    /\ IdleFormat

NextWrite ==
    \/ WriteOpen
    \/ WriteSection
    \/ WriteDone

SpecWrite == InitWrite /\ [][NextWrite]_vars

ReportWritten == psuPc = "returned" /\ filepath # NoPath

HeaderWritten(category) ==
    \E i \in 1..Len(files[username].chunks) :
        files[username].chunks[i].section = "CITATIONS OF " \o category

\* the chunks of the report after the title of the citations part
CitationPart ==
    LET ch == files[username].chunks
        at == CHOOSE i \in 1..Len(ch) : ch[i].section = "SUPPORTING EVIDENCE & CITATIONS"
    IN  Sub(ch, at + 1, Len(ch))

\* C13: the report has the header of a citation category if and only if the
\* category's citation list is not empty; a category with an empty list
\* contributes no header and no lines.
C13_HeaderIffNonEmpty ==
    ReportWritten =>
        /\ \A category \in DOMAIN persona["citations"] :
              HeaderWritten(category) <=> persona["citations"][category] # <<>>
        /\ Len(CitationPart) =
              Cardinality({c \in DOMAIN persona["citations"] : persona["citations"][c] # <<>>})
        /\ \A i \in 1..Len(CitationPart) : CitationPart[i].body # <<>>

\* a report of a persona with an empty category and two non-empty ones
C13_Witness ==
    /\ ReportWritten
    /\ persona["citations"] = JsonValue(LitListMapMixed)
    /\ HeaderWritten("interests")
    /\ HeaderWritten("hobbies")
    /\ ~HeaderWritten("goals")

(***************************************************************************)
(* SpecFormat: calls of _format_posts_for_llm                              *)
(***************************************************************************)
\* line 485: the cap on the characters of a content given to the model
FormatCap == 800
Ellipsis == <<".", ".", ".">>

\* a content of n characters, no two neighbours alike
LongContent(n) == [i \in 1..n |-> <<"a", "b", "c">>[(i % 3) + 1]]

\* the lengths of the contents given: short, at the cap, just above, well above
ContentLens == {MinContentLen + 1, FormatCap, FormatCap + 1, FormatCap + 4}

\* the posts given: the title, content and post_type of a RedditPost (the
\* subreddit, timestamp, upvotes and url are copied into the text as they are)
FormatItems ==
    {[title |-> <<"t">>, content |-> LongContent(n), post_type |-> ty] :
        n \in ContentLens, ty \in {"post", "comment"}}

\* post.post_type.upper()
Upper(post_type) == IF post_type = "post" THEN "POST" ELSE "COMMENT"

\* a truncation that also cuts a content of exactly FormatCap characters
TruncateFromCap(post) ==
    IF Len(post.content) >= FormatCap
    THEN Sub(post.content, 1, FormatCap) \o Ellipsis
    ELSE post.content

\* line 485: (post.content[:800] + "...") if len(post.content) > 800
\* else post.content
Truncate(post) ==
    IF Len(post.content) > FormatCap
    THEN Sub(post.content, 1, FormatCap) \o Ellipsis
    ELSE post.content

\* lines 487-495: the block of the i-th post
FormattedPost(i, post) ==
    [header |-> <<Upper(post.post_type), i>>,
     title |-> post.title,
     content |-> Truncate(post)]

InitFormat ==
    /\ formatArg \in SeqsUpTo(FormatItems, MaxFormatPosts)
    /\ formatted_posts = <<>>
    /\ formatted = <<>>
    /\ formatPc = "loop"
    /\ IdleClean
    /\ IdleParse
    /\ IdleScrape
    /\ IdleMain

\* lines 483-496: one turn of the loop
FormatAppend ==
    /\ formatPc = "loop"
    /\ Len(formatted_posts) < Len(formatArg)
    /\ LET i == Len(formatted_posts) + 1
       IN  formatted_posts' = Append(formatted_posts, FormattedPost(i, formatArg[i]))
    /\ UNCHANGED <<formatArg, formatted, formatPc>>
    /\ UNCHANGED <<cleanVars, parseVars, scrapeVars, mainVars>>

\* line 498: the blocks joined in the order of the list
FormatJoin ==
    /\ formatPc = "loop"
    /\ Len(formatted_posts) = Len(formatArg)
    /\ formatted' = formatted_posts
    /\ formatPc' = "returned"
    /\ UNCHANGED <<formatArg, formatted_posts>>
    /\ UNCHANGED <<cleanVars, parseVars, scrapeVars, mainVars>>

NextFormat ==
    \/ FormatAppend
    \/ FormatJoin

SpecFormat == InitFormat /\ [][NextFormat]_vars

\* C15: in the text of _format_posts_for_llm the items are in input order,
\* and the content field of each is the item's content unchanged when it has
\* at most 800 characters, and otherwise its first 800 characters followed by
\* "..."; no content field has more than 803 characters.
C15_OrderAndTruncation ==
    formatPc = "returned" =>
        /\ Len(formatted) = Len(formatArg)
        /\ \A i \in 1..Len(formatArg) :
              LET c == formatArg[i].content
                  r == formatted[i].content
              IN  /\ formatted[i].header = <<Upper(formatArg[i].post_type), i>>
                  /\ formatted[i].title = formatArg[i].title
                  /\ Len(c) <= 800 => r = c
                  /\ Len(c) > 800 =>
                        /\ Len(r) = 803
                        /\ \A k \in 1..800 : r[k] = c[k]
                        /\ \A k \in 801..803 : r[k] = "."
                  /\ Len(r) <= 803

\* a text of two items, the first cut from 804 characters, the second of
\* exactly 800 characters kept whole
C15_Witness ==
    /\ formatPc = "returned"
    /\ Len(formatArg) = 2
    /\ Len(formatArg[1].content) = 804
    /\ Len(formatted[1].content) = 803
    /\ formatArg[1].post_type = "comment"
    /\ Len(formatArg[2].content) = 800
    /\ formatted[2].content = formatArg[2].content

====
